---- MODULE Spec2Model ----
(***************************************************************************)
(* A model of server.py: the /mrz and /idocr request handlers, the MRZ    *)
(* grammar cascade try_read_mrz, the raw-line fallback OCR, the date and   *)
(* line normalizers and the residence/address extractor.                   *)
(*                                                                         *)
(* Text is modelled as a sequence of one-character strings, a multi-line   *)
(* text as a sequence of such lines.  The OCR engine (pytesseract), the    *)
(* MRZ grammar library (passporteye.read_mrz) and the image decoder (PIL)  *)
(* are external: each call's outcome is a nondeterministic choice among    *)
(* the outcomes the library can produce.  A request is modelled from the   *)
(* entry of its handler: require_api_key has already let it through.  Of   *)
(* the /idocr answer the address fields are modelled; its date and country *)
(* fields are computed after the last engine call and cannot raise.        *)
(***************************************************************************)
EXTENDS Integers, Sequences, FiniteSets, TLC

VARIABLES
    endpoint,   \* "mrz" | "idocr" | "none": the route of the request in flight
    files,      \* request.files: field name -> kind of upload
    fastArg,    \* request.args.get("fast"): "absent" | "1" | "0"
    today,      \* date.today().year, read by normalize_date_mrz
    pc,         \* position of the handler
    rotated,    \* try_read_mrz: FALSE in the first loop, TRUE in the second
    idx,        \* try_read_mrz: index of the next entry of params
    calls,      \* the external engine invocations of this request, in order
    mrz_obj,    \* what try_read_mrz returned
    resp,       \* the response of the request
    input,      \* argument of a function under unit test
    output      \* result of the function under unit test

vars == <<endpoint, files, fastArg, today, pc, rotated, idx, calls, mrz_obj,
          resp, input, output>>

reqVars == <<endpoint, files, fastArg, pc, rotated, idx, calls, mrz_obj, resp>>

-----------------------------------------------------------------------------
(* Bounds of the model *)

\* longest string handed to normalize_date_mrz in the exhaustive part
MaxDateLen == 7
\* longest raw line handed to the line normalizers
MaxLineLen == 32
\* most lines in a back-face text handed to extract_address_residence
MaxBackLines == 3

-----------------------------------------------------------------------------
(* Characters and Python string primitives *)

Digits == <<"0","1","2","3","4","5","6","7","8","9">>
LowerAZ == <<"a","b","c","d","e","f","g","h","i","j","k","l","m",
             "n","o","p","q","r","s","t","u","v","w","x","y","z">>
UpperAZ == <<"A","B","C","D","E","F","G","H","I","J","K","L","M",
             "N","O","P","Q","R","S","T","U","V","W","X","Y","Z">>

Range(f) == {f[i] : i \in DOMAIN f}

IsDigit(c) == c \in Range(Digits)
IsUpperLetter(c) == c \in Range(UpperAZ)
IsLowerLetter(c) == c \in Range(LowerAZ)
IsSpace(c) == c = " "

DigitVal(c) == (CHOOSE i \in DOMAIN Digits : Digits[i] = c) - 1

\* str.upper() on one character
UpperChar(c) ==
    IF IsLowerLetter(c)
    THEN UpperAZ[CHOOSE i \in DOMAIN LowerAZ : LowerAZ[i] = c]
    ELSE c

\* str.upper()
Upper(s) == [i \in DOMAIN s |-> UpperChar(s[i])]

\* str.strip() (whitespace at both ends)
RECURSIVE LStrip(_)
LStrip(s) == IF s # <<>> /\ IsSpace(Head(s)) THEN LStrip(Tail(s)) ELSE s
RECURSIVE RStrip(_)
RStrip(s) ==
    IF s # <<>> /\ IsSpace(s[Len(s)]) THEN RStrip(SubSeq(s, 1, Len(s) - 1)) ELSE s
Strip(s) == RStrip(LStrip(s))

\* `t in s` on strings
Contains(s, t) ==
    \E i \in 1..(Len(s) - Len(t) + 1) : SubSeq(s, i, i + Len(t) - 1) = t

\* s[a:b] with 0 <= a <= b (Python slicing clamps to the length)
Slice(s, a, b) ==
    SubSeq(s, a + 1, IF b < Len(s) THEN b ELSE Len(s))

\* c * n
RECURSIVE Rep(_, _)
Rep(c, n) == IF n <= 0 THEN <<>> ELSE <<c>> \o Rep(c, n - 1)

\* str.ljust(width, fill)
LJust(s, width, fill) == s \o Rep(fill, width - Len(s))

\* decimal value of a non-empty string of digits
RECURSIVE DigitsToNat(_)
DigitsToNat(s) ==
    IF s = <<>> THEN 0
    ELSE 10 * DigitsToNat(SubSeq(s, 1, Len(s) - 1)) + DigitVal(s[Len(s)])

\* int(s) for a string of at most two characters: surrounding whitespace and
\* one sign are accepted, anything else raises ValueError
PyInt(s) ==
    LET t == Strip(s)
        signed == t # <<>> /\ Head(t) \in {"+", "-"}
        body == IF signed THEN Tail(t) ELSE t
    IN  IF body = <<>> \/ \E i \in DOMAIN body : ~IsDigit(body[i])
        THEN [ok |-> FALSE, val |-> 0]
        ELSE [ok |-> TRUE,
              val |-> IF signed /\ Head(t) = "-"
                      THEN 0 - DigitsToNat(body) ELSE DigitsToNat(body)]

\* f"{n}" for an integer
RECURSIVE NatToStr(_)
NatToStr(n) ==
    IF n < 10 THEN <<Digits[n + 1]>>
    ELSE NatToStr(n \div 10) \o <<Digits[(n % 10) + 1]>>
IntToStr(n) == IF n < 0 THEN <<"-">> \o NatToStr(0 - n) ELSE NatToStr(n)

\* an optional string: Python's None or a str
NoneStr == [isNone |-> TRUE, s |-> <<>>]
Str(s) == [isNone |-> FALSE, s |-> s]

\* the result of a call: a value, or an exception that propagates
Returned(v) == [raised |-> FALSE, exc |-> "", value |-> v]
Raised(e) == [raised |-> TRUE, exc |-> e, value |-> NoneStr]

-----------------------------------------------------------------------------
(* normalize_date_mrz *)

\* the century test of normalize_date_mrz with the comparison made strict
CenturyStrict(yy, nowyy) == IF yy < nowyy THEN 2000 ELSE 1900

Century(yy, nowyy) == IF yy <= nowyy THEN 2000 ELSE 1900

normalize_date_mrz(yyMMdd, year) ==
    IF yyMMdd.isNone \/ yyMMdd.s = <<>> \/ Len(yyMMdd.s) # 6
    THEN Returned(NoneStr)
    ELSE LET yy == PyInt(SubSeq(yyMMdd.s, 1, 2))
             mm == SubSeq(yyMMdd.s, 3, 4)
             dd == SubSeq(yyMMdd.s, 5, 6)
             nowyy == year % 100
         IN  IF ~yy.ok THEN Raised("ValueError")
             ELSE Returned(Str(IntToStr(Century(yy.val, nowyy) + yy.val)
                               \o <<"-">> \o mm \o <<"-">> \o dd))

-----------------------------------------------------------------------------
(* Unit harness: normalize_date_mrz over bounded inputs and clocks *)

Years == {2024, 2026, 2100}

DateAlphabet == {"1", "A", " "}

RECURSIVE StringsOfLen(_, _)
StringsOfLen(A, n) ==
    IF n = 0 THEN {<<>>}
    ELSE {<<c>> \o s : c \in A, s \in StringsOfLen(A, n - 1)}

DigitPairs == {<<a, b>> : a \in Range(Digits), b \in Range(Digits)}

DateInputs ==
    {NoneStr}
    \cup {Str(s) : s \in UNION {StringsOfLen(DateAlphabet, n) : n \in 0..MaxDateLen}}
    \cup {Str(y \o m \o d) :
            y \in DigitPairs \cup {<<"<","<">>, <<"+","5">>, <<"-","5">>},
            m \in {<<"0","1">>, <<"1","2">>, <<"1","3">>, <<"<","<">>, <<"A","B">>},
            d \in {<<"0","1">>, <<"3","1">>, <<"<","1">>}}

IdleRequest ==
    /\ endpoint = "none"
    /\ files = <<>>
    /\ fastArg = "absent"
    /\ pc = "idle"
    /\ rotated = FALSE
    /\ idx = 1
    /\ calls = <<>>
    /\ mrz_obj = <<>>
    /\ resp = <<>>

Pending == [state |-> "pending"]

InitDate ==
    /\ IdleRequest
    /\ today \in Years
    /\ input \in DateInputs
    /\ output = Pending

CallNormalizeDateMrz ==
    /\ output = Pending
    /\ output' = [state |-> "done", res |-> normalize_date_mrz(input, today)]
    /\ UNCHANGED <<reqVars, today, input>>

NextDate == CallNormalizeDateMrz

SpecDate == InitDate /\ [][NextDate]_vars

-----------------------------------------------------------------------------
(* MRZ line utilities *)

IsMrzChar(c) == IsUpperLetter(c) \/ IsDigit(c) \/ c = "<"

\* re.sub(r"[^A-Z0-9<]", "", (s or "").upper())
sanitize_line(s) == SelectSeq(Upper(s), IsMrzChar)

normalize_td1_line(line) ==
    LET s == sanitize_line(line)
        t == IF Len(s) > 30 THEN Slice(s, 0, 30) ELSE s
    IN  \* line 105: `s.length` is evaluated whenever the branch is taken, and
        \* a Python str has no attribute `length`
        IF Len(t) < 30 THEN Raised("AttributeError") ELSE Returned(Str(t))

\* l[:30].ljust(30, '<')
FastLine(l) == LJust(Slice(l, 0, 30), 30, "<")

\* lines[-3:] when there are more than three
LastThree(ls) == IF Len(ls) > 3 THEN SubSeq(ls, Len(ls) - 2, Len(ls)) ELSE ls

NonBlank(l) == Strip(l) # <<>>

\* ocr_bottom_mrz_lines_fast from the OCR text on: txt is txt.splitlines()
MrzLinesOfText(txt) ==
    LET kept == SelectSeq(txt, NonBlank)
        clean == [i \in DOMAIN kept |-> sanitize_line(kept[i])]
        last == LastThree(clean)
    IN  [i \in DOMAIN last |-> FastLine(last[i])]

\* str.replace("<", "")
IsNotFiller(c) == c # "<"
DropFiller(s) == SelectSeq(s, IsNotFiller)

-----------------------------------------------------------------------------
(* Unit harness: the two line normalizers over bounded raw lines *)

\* the first n characters of pat repeated
RECURSIVE Cycle(_, _)
Cycle(pat, n) ==
    IF n <= 0 THEN <<>>
    ELSE IF n <= Len(pat) THEN SubSeq(pat, 1, n)
    ELSE pat \o Cycle(pat, n - Len(pat))

LinePatterns == {<<"A">>, <<"p","<","1">>, <<"I"," ","D","-">>, <<" ">>}

LineInputs == {Cycle(p, n) : p \in LinePatterns, n \in 0..MaxLineLen}

InitLine ==
    /\ IdleRequest
    /\ today \in {2026}
    /\ input \in LineInputs
    /\ output = Pending

CallNormalizeTd1Line ==
    /\ output = Pending
    /\ output' = [state |-> "done", fn |-> "normalize_td1_line",
                  res |-> normalize_td1_line(input)]
    /\ UNCHANGED <<reqVars, today, input>>

CallFastLines ==
    /\ output = Pending
    /\ output' = [state |-> "done", fn |-> "ocr_bottom_mrz_lines_fast",
                  res |-> MrzLinesOfText(<<input>>)]
    /\ UNCHANGED <<reqVars, today, input>>

NextLine == CallNormalizeTd1Line \/ CallFastLines

SpecLine == InitLine /\ [][NextLine]_vars

-----------------------------------------------------------------------------
(* Free-text utilities *)

\* unicodedata.normalize('NFD', c): a precomposed accented letter becomes its
\* base letter followed by a combining mark (category Mn)
Nfd(c) ==
    CASE c = "A_ACUTE" -> <<"A", "COMBINING_ACUTE">>
      [] c = "a_acute" -> <<"a", "COMBINING_ACUTE">>
      [] OTHER -> <<c>>

IsNotMark(c) == c # "COMBINING_ACUTE"

RECURSIVE NfdAll(_)
NfdAll(s) == IF s = <<>> THEN <<>> ELSE Nfd(Head(s)) \o NfdAll(Tail(s))

deaccent(s) == SelectSeq(NfdAll(s), IsNotMark)

\* \w and the characters upclean lets through
IsWordChar(c) ==
    IsUpperLetter(c) \/ IsLowerLetter(c) \/ IsDigit(c) \/ c = "_"
        \/ c \in {"A_ACUTE", "a_acute"}
IsUpcleanChar(c) == IsWordChar(c) \/ IsSpace(c) \/ c \in {"-", "(", ")", "/", "."}

\* re.sub(r"[^\w\s\-\(\)\/\.]", " ", deaccent(s or "").upper()) on one line
upclean(s) ==
    LET u == Upper(deaccent(s))
    IN  [i \in DOMAIN u |-> IF IsUpcleanChar(u[i]) THEN u[i] ELSE " "]

\* re.sub(r"\s{2,}", " ", s)
RECURSIVE CollapseSpaces(_)
CollapseSpaces(s) ==
    IF s = <<>> THEN <<>>
    ELSE IF IsSpace(Head(s)) /\ Len(s) >= 2 /\ IsSpace(s[2])
         THEN <<" ">> \o CollapseSpaces(LStrip(s))
         ELSE <<Head(s)>> \o CollapseSpaces(Tail(s))

\* sep.join(ls)
RECURSIVE Join(_, _)
Join(ls, sep) ==
    IF ls = <<>> THEN <<>>
    ELSE IF Len(ls) = 1 THEN ls[1]
    ELSE ls[1] \o sep \o Join(Tail(ls), sep)

HasDigit(s) == \E i \in DOMAIN s : IsDigit(s[i])

PROVINCIAS == {
    <<"A","L","A","V","A">>,
    <<"A","L","B","A","C","E","T","E">>,
    <<"A","L","I","C","A","N","T","E">>,
    <<"A","L","M","E","R","I","A">>,
    <<"A","S","T","U","R","I","A","S">>,
    <<"A","V","I","L","A">>,
    <<"B","A","D","A","J","O","Z">>,
    <<"B","A","R","C","E","L","O","N","A">>,
    <<"B","U","R","G","O","S">>,
    <<"C","A","C","E","R","E","S">>,
    <<"C","A","D","I","Z">>,
    <<"C","A","N","T","A","B","R","I","A">>,
    <<"C","A","S","T","E","L","L","O","N">>,
    <<"C","E","U","T","A">>,
    <<"C","I","U","D","A","D"," ","R","E","A","L">>,
    <<"C","O","R","D","O","B","A">>,
    <<"C","U","E","N","C","A">>,
    <<"G","I","R","O","N","A">>,
    <<"G","R","A","N","A","D","A">>,
    <<"G","U","A","D","A","L","A","J","A","R","A">>,
    <<"G","U","I","P","U","Z","C","O","A">>,
    <<"H","U","E","L","V","A">>,
    <<"H","U","E","S","C","A">>,
    <<"I","L","L","E","S"," ","B","A","L","E","A","R","S">>,
    <<"J","A","E","N">>,
    <<"L","A"," ","C","O","R","U","N","A">>,
    <<"A"," ","C","O","R","U","N","A">>,
    <<"L","A"," ","R","I","O","J","A">>,
    <<"L","A","S"," ","P","A","L","M","A","S">>,
    <<"L","E","O","N">>,
    <<"L","L","E","I","D","A">>,
    <<"L","U","G","O">>,
    <<"M","A","D","R","I","D">>,
    <<"M","A","L","A","G","A">>,
    <<"M","E","L","I","L","L","A">>,
    <<"M","U","R","C","I","A">>,
    <<"N","A","V","A","R","R","A">>,
    <<"O","U","R","E","N","S","E">>,
    <<"P","A","L","E","N","C","I","A">>,
    <<"P","O","N","T","E","V","E","D","R","A">>,
    <<"S","A","L","A","M","A","N","C","A">>,
    <<"S","E","G","O","V","I","A">>,
    <<"S","E","V","I","L","L","A">>,
    <<"S","O","R","I","A">>,
    <<"T","A","R","R","A","G","O","N","A">>,
    <<"S","A","N","T","A"," ","C","R","U","Z"," ","D","E"," ","T","E","N","E","R","I","F","E">>,
    <<"T","E","R","U","E","L">>,
    <<"T","O","L","E","D","O">>,
    <<"V","A","L","E","N","C","I","A">>,
    <<"V","A","L","L","A","D","O","L","I","D">>,
    <<"V","I","Z","C","A","Y","A">>,
    <<"B","I","Z","K","A","I","A">>,
    <<"Z","A","M","O","R","A">>,
    <<"Z","A","R","A","G","O","Z","A">>,
    <<"A","L","A","V","A">>,
    <<"A","R","A","B","A">>}

LABEL_CUTS == {
    <<"L","U","G","A","R"," ","D","E"," ","N","A","C","I","M","I","E","N","T","O">>,
    <<"L","U","G","A","R"," "," ","D","E"," "," ","N","A","C","I","M","I","E","N","T","O">>,
    <<"L","U","G","A","R"," ","D","E"," "," ","N","A","C","I","M","I","E","N","T","O">>,
    <<"L","U","G","A","R"," "," ","D","E"," ","N","A","C","I","M","I","E","N","T","O">>,
    <<"L","U","G","A","R"," ","N","A","C","I","M","I","E","N","T","O">>}

ADDRESS_WORDS == {
    <<"C","A","L","L","E">>,
    <<"C","L">>,
    <<"C","/">>,
    <<"A","V","E","N","I","D","A">>,
    <<"A","V","D","A">>,
    <<"A","V","D">>,
    <<"P","L","A","Z","A">>,
    <<"P","Z","A">>,
    <<"C","A","M","I","N","O">>,
    <<"C","M","N","O">>,
    <<"C","A","R","R","E","T","E","R","A">>,
    <<"C","T","R","A">>,
    <<"C","R","T","A">>,
    <<"P","G","N","O">>,
    <<"P","O","L","I","G","O","N","O">>,
    <<"U","R","B","A","N","I","Z","A","C","I","O","N">>,
    <<"U","R","B">>,
    <<"B","A","R","R","I","O">>,
    <<"R","O","N","D","A">>,
    <<"P","A","S","A","J","E">>,
    <<"P","J","E">>,
    <<"T","R","A","V","E","S","I","A">>,
    <<"T","R","V">>}

NotAddressWords == {
    <<"N","A","C","I","O","N","A","L","I","D","A","D">>,
    <<"N","O","M","B","R","E">>,
    <<"A","P","E","L","L","I","D","O","S">>,
    <<"D","O","C","U","M","E","N","T","O">>,
    <<"I","D","E","N","T","I","T","Y">>,
    <<"C","A","R","D">>,
    <<"N","U","M"," ","S","O","P","O","R","T","E">>,
    <<"S","O","P","O","R","T","E">>,
    <<"L","U","G","A","R">>,
    <<"N","A","C","I","M","I","E","N","T","O">>}

\* re.search(CP_RE, s): the leftmost five digits standing between word boundaries
CpMatches(s) ==
    {i \in 1..(Len(s) - 4) :
        /\ \A k \in i..(i + 4) : IsDigit(s[k])
        /\ (i = 1 \/ ~IsWordChar(s[i - 1]))
        /\ (i + 5 > Len(s) \/ ~IsWordChar(s[i + 5]))}
SearchCp(s) ==
    IF CpMatches(s) = {} THEN NoneStr
    ELSE LET i == CHOOSE j \in CpMatches(s) : \A k \in CpMatches(s) : j <= k
         IN  Str(SubSeq(s, i, i + 4))

split_residence_section(back_text) ==
    LET clean == [i \in DOMAIN back_text |-> upclean(back_text[i])]
        lines == SelectSeq(clean, NonBlank)
        cuts == {i \in DOMAIN lines : \E tag \in LABEL_CUTS : Contains(lines[i], tag)}
    IN  IF cuts = {} THEN lines
        ELSE SubSeq(lines, 1, (CHOOSE i \in cuts : \A k \in cuts : i <= k) - 1)

likely_address_line(u) ==
    IF \E k \in NotAddressWords : Contains(u, k) THEN FALSE
    ELSE IF \E w \in ADDRESS_WORDS : Contains(u, w) THEN TRUE
    ELSE IF HasDigit(u) THEN TRUE
    ELSE 8 <= Len(u) /\ Len(u) <= 45 /\ u = Upper(u)

\* the loop of lines 176-182: the first one or two consecutive address-like lines
RECURSIVE AddrLines(_, _)
AddrLines(ls, acc) ==
    IF ls = <<>> THEN acc
    ELSE LET u == Strip(Head(ls))
         IN  IF likely_address_line(u)
             THEN (IF Len(acc) + 1 >= 2 THEN Append(acc, u)
                   ELSE AddrLines(Tail(ls), Append(acc, u)))
             ELSE IF acc # <<>> THEN acc
             ELSE AddrLines(Tail(ls), acc)

\* next((l for l in ls if test(l)), None), hits being the l that pass the test
FirstOr(hits) == IF hits = <<>> THEN NoneStr ELSE Str(hits[1])

IsUpperNoFiller(l) == l = Upper(l) /\ ~Contains(l, <<"<">>)
IsWordyLine(l) == Len(Strip(l)) >= 3 /\ ~HasDigit(l)
InProvincias(l) == deaccent(l) \in PROVINCIAS

extract_address_residence(back_text) ==
    LET res_lines == split_residence_section(back_text)
        addr_lines == AddrLines(res_lines, <<>>)
        domicilio == IF addr_lines = <<>> THEN NoneStr
                     ELSE Str(Strip(CollapseSpaces(Join(addr_lines, <<" ">>))))
        cp == SearchCp(Join(res_lines, <<"\n">>))
        upp0 == SelectSeq(SelectSeq(res_lines, IsUpperNoFiller), IsWordyLine)
        upp == [i \in DOMAIN upp0 |-> Strip(CollapseSpaces(upp0[i]))]
        prov == FirstOr(SelectSeq(upp, InProvincias))
        IsLoc(l) == l # prov.s /\ ~InProvincias(l)
        loc == IF prov.isNone THEN NoneStr ELSE FirstOr(SelectSeq(upp, IsLoc))
    IN  [domicilio |-> domicilio, cp |-> cp, localidad |-> loc, provincia |-> prov]

-----------------------------------------------------------------------------
(* Unit harness: extract_address_residence over bounded back-face texts *)

StreetLines == {<<"C","A","L","L","E"," ","M","A","Y","O","R"," ","1","2">>, <<"A","v","d","a","."," ","A","n","d","a","l","u","c","i","a"," ","3">>}

CpLines == {<<"2","8","0","1","3"," ","M","A","D","R","I","D"," ","(","M","A","D","R","I","D",")">>, <<"2","8","9","0","1"," ","G","E","T","A","F","E"," ","(","M","A","D","R","I","D",")">>}

OtherLines ==
    {<<"M","A","D","R","I","D">>, <<"G","E","T","A","F","E">>, <<"L","U","G","A","R"," ","D","E"," ","N","A","C","I","M","I","E","N","T","O">>, <<"I","D","E","S","P","<","<","<","7">>,
     <<"A_ACUTE","V","I","L","A">>}

LinePool == StreetLines \cup CpLines \cup OtherLines

RECURSIVE TextsOfLen(_)
TextsOfLen(n) ==
    IF n = 0 THEN {<<>>}
    ELSE {<<l>> \o t : l \in LinePool, t \in TextsOfLen(n - 1)}

BackTexts == UNION {TextsOfLen(n) : n \in 0..MaxBackLines}

InitAddr ==
    /\ IdleRequest
    /\ today \in {2026}
    /\ input \in BackTexts
    /\ output = Pending

CallExtractAddressResidence ==
    /\ output = Pending
    /\ output' = [state |-> "done", res |-> extract_address_residence(input)]
    /\ UNCHANGED <<reqVars, today, input>>

NextAddr == CallExtractAddressResidence

SpecAddr == InitAddr /\ [][NextAddr]_vars

-----------------------------------------------------------------------------
(* The external libraries *)

\* An upload as PIL sees it.  Image.open is lazy: it raises only when the bytes
\* are not identified as an image ("undecodable"); an upload whose header is
\* read but whose pixel data cannot be decoded ("truncated") is opened, and
\* raises OSError at the first operation that loads the pixels (crop,
\* grayscale/convert, save).  "missing" is an absent or empty form field.
UploadKinds == {"missing", "undecodable", "truncated", "valid"}

\* Image.open(io.BytesIO(raw_bytes)) raises
OpenFails(kind) == kind = "undecodable"
\* img.load() raises
LoadFails(kind) == kind = "truncated"

\* fix_orientation: only Image.open is outside the try; whatever the EXIF
\* branch raises is swallowed and the image is returned as opened
fix_orientation(kind) == IF OpenFails(kind) THEN Raised("UnidentifiedImageError")
                         ELSE Returned(NoneStr)

\* the date strings the grammar library is taken to return in a record
DateSamples ==
    {NoneStr, Str(<<"8","5","0","1","0","1">>), Str(<<"3","0","0","1","0","1">>), Str(<<"8","5","1","3","0","1">>),
     Str(<<"8","5","A","B","0","1">>), Str(<<"<","<","0","1","0","1">>)}

Td3Text == << LJust(<<"P","<","E","S","P","G","A","R","C","I","A","<","<","M","A","R","I","A","<","L","U","Z">>, 44, "<"),
              LJust(<<"X","1","2","3","4","5","6","7","<","8","E","S","P","8","5","0","1","0","1","4","F","3","0","0","1","0","1","2">>, 44, "<") >>

\* MRZ.to_dict() of a record, and {} (every d.get is None) for no record.
\* mrz_text is the text split in lines; <<>> stands for None or "".
NoMrz ==
    [found |-> FALSE, mrz_type |-> NoneStr, number |-> NoneStr,
     nationality |-> NoneStr, surname |-> NoneStr, names |-> NoneStr,
     sex |-> NoneStr, date_of_birth |-> NoneStr, expiration_date |-> NoneStr,
     mrz_text |-> <<>>]

Identities ==
    { [mrz_type |-> Str(<<"T","D","3">>), number |-> Str(<<"X","1","2","3","4","5","6","7">>),
       nationality |-> Str(<<"e","s","p">>), surname |-> Str(<<"G","A","R","C","I","A">>),
       names |-> Str(<<"M","A","R","I","A"," ","L","U","Z">>), sex |-> Str(<<"f">>)],
      [mrz_type |-> NoneStr, number |-> NoneStr, nationality |-> NoneStr,
       surname |-> NoneStr, names |-> NoneStr, sex |-> NoneStr] }

MrzRecords ==
    { [found |-> TRUE, mrz_type |-> id.mrz_type, number |-> id.number,
       nationality |-> id.nationality, surname |-> id.surname,
       names |-> id.names, sex |-> id.sex, date_of_birth |-> b,
       expiration_date |-> e, mrz_text |-> t] :
        id \in Identities, b \in DateSamples, e \in DateSamples,
        t \in {<<>>, Td3Text} }

\* the texts pytesseract is taken to return for the bottom band, as splitlines()
BandTexts ==
    { <<>>,
      <<<<" "," ">>>>,
      <<<<"i","d","e","s","p","1","2","3"," ","4","5","<">>>>,
      <<Cycle(<<"I","D","E","S","P","A","A","A","0","0","0","0","0","0">>, 30), Cycle(<<"8","5","0","1","0","1","4","F","3","0","0","1","0","1">>, 36),
        Cycle(<<"G","A","R","C","I","A","<","<","M","A","R","I","A","<">>, 30)>>,
      <<<<"R","E","I","N","O"," ","D","E"," ","E","S","P","A","N","A">>, Cycle(<<"I","D","E","S","P","A","A","A","0","0","0","0","0","0">>, 30),
        Cycle(<<"8","5","0","1","0","1","4","F","3","0","0","1","0","1">>, 30), Cycle(<<"G","A","R","C","I","A","<","<","M","A","R","I","A","<">>, 30)>> }

\* the texts pytesseract is taken to return for a back face, as splitlines()
BackFaceTexts ==
    { <<>>,
      <<<<"C","A","L","L","E"," ","M","A","Y","O","R"," ","1","2">>, <<"2","8","0","1","3"," ","M","A","D","R","I","D"," ","(","M","A","D","R","I","D",")">>>>,
      <<<<"P","l","a","z","a"," ","d","e","l"," ","S","o","l"," ","1">>, <<"G","E","T","A","F","E">>, <<"M","A","D","R","I","D">>, <<"L","U","G","A","R"," ","D","E"," ","N","A","C","I","M","I","E","N","T","O">>>> }

\* one invocation of an external engine, as logged in calls: what was asked
\* and what came back (the record of read_mrz, the lines drawn from the text)
GrammarCall(rot, psm, outcome, record) ==
    [lib |-> "read_mrz", target |-> "jpeg", rot |-> rot, psm |-> psm,
     outcome |-> outcome, record |-> record, lines |-> <<>>]
OcrCall(target, outcome, lines) ==
    [lib |-> "pytesseract", target |-> target, rot |-> 0, psm |-> 6,
     outcome |-> outcome, record |-> NoMrz, lines |-> lines]

-----------------------------------------------------------------------------
(* Responses *)

\* the except clause of both handlers: 500, ok false
ExceptionResponse(exc) ==
    [status |-> 500, ok |-> FALSE, error |-> "EXCEPTION", exc |-> exc]

\* the 400 answers for a missing upload
MissingResponse == [status |-> 400, ok |-> FALSE, error |-> "missing file", exc |-> ""]

\* x or "" for an optional string
OrEmpty(x) == IF x.isNone THEN <<>> ELSE x.s

\* truthiness of an optional string
Truthy(x) == ~x.isNone /\ x.s # <<>>

\* lines 307-329: the answer of the fast branch
FastResponse(lines) ==
    [status |-> 200, ok |-> TRUE,
     type |-> Str(<<"T","D","1">>), doc_code |-> Str(<<"I">>),
     numero |-> Str(<<>>), nacionalidad |-> Str(<<>>), apellidos |-> Str(<<>>),
     nombres |-> Str(<<>>), sexo |-> Str(<<>>),
     nacimiento |-> NoneStr, expiracion |-> NoneStr,
     raw |-> <<>>, mrz_lines |-> lines,
     optional_td1 |-> IF lines # <<>> THEN DropFiller(Slice(lines[1], 15, 30))
                      ELSE <<>>]

\* lines 355-356: a date field of the full answer
DateField(v, year) == IF Truthy(v) THEN normalize_date_mrz(v, year) ELSE Returned(NoneStr)

\* lines 338-362: the answer of the full branch; d is the record's dict, lines
\* the fallback's lines (<<>> when the fallback did not run)
FullResponse(d, lines, year) ==
    LET raw_pe == d.mrz_text
        raw == IF raw_pe # <<>> THEN raw_pe ELSE lines
        l1 == IF raw # <<>> THEN LJust(Slice(raw[1], 0, 30), 30, "<") ELSE <<>>
        nac == DateField(d.date_of_birth, year)
        exp == DateField(d.expiration_date, year)
    IN  IF nac.raised THEN ExceptionResponse(nac.exc)
        ELSE IF exp.raised THEN ExceptionResponse(exp.exc)
        ELSE [status |-> 200, ok |-> TRUE,
              type |-> d.mrz_type, doc_code |-> NoneStr,
              numero |-> d.number,
              nacionalidad |-> Str(Upper(OrEmpty(d.nationality))),
              apellidos |-> d.surname, nombres |-> d.names,
              sexo |-> Str(Upper(OrEmpty(d.sex))),
              nacimiento |-> nac.value, expiracion |-> exp.value,
              raw |-> raw_pe, mrz_lines |-> lines,
              optional_td1 |-> IF raw # <<>> THEN DropFiller(Slice(l1, 15, 30))
                               ELSE <<>>]

\* lines 278-290: the answer of /idocr, its address fields
IdocrResponse(txt_back) ==
    LET a == extract_address_residence(txt_back)
    IN  [status |-> 200, ok |-> TRUE, domicilio |-> a.domicilio, cp |-> a.cp,
         localidad |-> a.localidad, provincia |-> a.provincia]

-----------------------------------------------------------------------------
(* The request handlers *)

\* the fast test with the flag's sense inverted
FastSelectedInverted(arg) == IF arg = "absent" THEN TRUE ELSE arg = "0"

\* request.args.get("fast", "1") == "1"
FastSelected(arg) == IF arg = "absent" THEN TRUE ELSE arg = "1"

\* try_read_mrz: psm_list, and the attempt the loops are at
psm_list == <<6, 7, 11>>
Rotation == IF rotated THEN 180 ELSE 0

Finish(r) == /\ resp' = r
             /\ pc' = "done"

Init ==
    /\ endpoint \in {"mrz", "idocr"}
    /\ files \in IF endpoint = "mrz" THEN [{"image"} -> UploadKinds]
                 ELSE [{"front", "back"} -> UploadKinds]
    /\ fastArg \in IF endpoint = "mrz" THEN {"absent", "1", "0"} ELSE {"absent"}
    /\ today \in Years
    /\ pc = "recv"
    /\ rotated = FALSE
    /\ idx = 1
    /\ calls = <<>>
    /\ mrz_obj = NoMrz
    /\ resp = <<>>
    /\ input = <<>>
    /\ output = Pending

\* mrz(), lines 298-306 and 331: up to the first engine invocation
MrzBegin ==
    /\ pc = "recv" /\ endpoint = "mrz"
    /\ IF files.image = "missing" THEN Finish(MissingResponse)
       ELSE IF fix_orientation(files.image).raised
            THEN Finish(ExceptionResponse(fix_orientation(files.image).exc))
       ELSE IF LoadFails(files.image)
            \* img.crop (fast) or img.save in to_jpeg_bytes (full) loads the pixels
            THEN Finish(ExceptionResponse("OSError"))
       ELSE /\ pc' = IF FastSelected(fastArg) THEN "fast_ocr" ELSE "cascade"
            /\ resp' = resp
    /\ UNCHANGED <<endpoint, files, fastArg, today, rotated, idx, calls, mrz_obj,
                   input, output>>

\* mrz(), lines 306-329: ocr_bottom_mrz_lines_fast and the fast answer
MrzFastOcr ==
    /\ pc = "fast_ocr"
    /\ \/ /\ calls' = Append(calls, OcrCall("bottom_band", "raise", <<>>))
          /\ Finish(ExceptionResponse("TesseractError"))
       \/ \E txt \in BandTexts :
            /\ calls' = Append(calls, OcrCall("bottom_band", "text", MrzLinesOfText(txt)))
            /\ Finish(FastResponse(MrzLinesOfText(txt)))
    /\ UNCHANGED <<endpoint, files, fastArg, today, rotated, idx, mrz_obj,
                   input, output>>

\* try_read_mrz: where the loops go after an attempt that returned None
AfterNull ==
    IF idx < Len(psm_list)
    THEN /\ idx' = idx + 1 /\ rotated' = rotated /\ pc' = pc
    ELSE IF ~rotated
    THEN /\ idx' = 1 /\ rotated' = TRUE /\ pc' = pc
    ELSE /\ idx' = idx /\ rotated' = rotated /\ pc' = "returned"

\* try_read_mrz with the `return mrz` of its loops lost: a record is kept and
\* the loops go on
TryReadMrzNoReturn ==
    /\ pc = "cascade"
    /\ \/ /\ calls' = Append(calls, GrammarCall(Rotation, psm_list[idx], "raise", NoMrz))
          /\ Finish(ExceptionResponse("GrammarError"))
          /\ UNCHANGED <<idx, rotated, mrz_obj>>
       \/ /\ calls' = Append(calls, GrammarCall(Rotation, psm_list[idx], "null", NoMrz))
          /\ AfterNull
          /\ UNCHANGED <<mrz_obj, resp>>
       \/ \E r \in MrzRecords :
            /\ calls' = Append(calls, GrammarCall(Rotation, psm_list[idx], "record", r))
            /\ mrz_obj' = r
            /\ AfterNull
            /\ UNCHANGED resp
    /\ UNCHANGED <<endpoint, files, fastArg, today, input, output>>

\* try_read_mrz, lines 124-135: one read_mrz invocation and what follows it
TryReadMrz ==
    /\ pc = "cascade"
    /\ \/ /\ calls' = Append(calls, GrammarCall(Rotation, psm_list[idx], "raise", NoMrz))
          /\ Finish(ExceptionResponse("GrammarError"))
          /\ UNCHANGED <<idx, rotated, mrz_obj>>
       \/ /\ calls' = Append(calls, GrammarCall(Rotation, psm_list[idx], "null", NoMrz))
          /\ AfterNull
          /\ UNCHANGED <<mrz_obj, resp>>
       \/ \E r \in MrzRecords :
            /\ calls' = Append(calls, GrammarCall(Rotation, psm_list[idx], "record", r))
            /\ mrz_obj' = r
            /\ pc' = "returned"
            /\ UNCHANGED <<idx, rotated, resp>>
    /\ UNCHANGED <<endpoint, files, fastArg, today, input, output>>

\* mrz() with the `if not raw_pe` of line 335 lost: the fallback always runs
MrzAfterCascadeAlwaysFallback ==
    /\ pc = "returned"
    /\ pc' = "fallback_ocr"
    /\ UNCHANGED <<endpoint, files, fastArg, today, rotated, idx, calls, mrz_obj,
                   resp, input, output>>

\* mrz(), lines 332-337 and 338-362 when the record carries its text
MrzAfterCascade ==
    /\ pc = "returned"
    /\ IF mrz_obj.mrz_text = <<>>
       THEN /\ pc' = "fallback_ocr" /\ resp' = resp
       ELSE Finish(FullResponse(mrz_obj, <<>>, today))
    /\ UNCHANGED <<endpoint, files, fastArg, today, rotated, idx, calls, mrz_obj,
                   input, output>>

\* mrz(), lines 336-362: the fallback raw-line OCR and the full answer
MrzFallbackOcr ==
    /\ pc = "fallback_ocr"
    /\ \/ /\ calls' = Append(calls, OcrCall("bottom_band", "raise", <<>>))
          /\ Finish(ExceptionResponse("TesseractError"))
       \/ \E txt \in BandTexts :
            /\ calls' = Append(calls, OcrCall("bottom_band", "text", MrzLinesOfText(txt)))
            /\ Finish(FullResponse(mrz_obj, MrzLinesOfText(txt), today))
    /\ UNCHANGED <<endpoint, files, fastArg, today, rotated, idx, mrz_obj,
                   input, output>>

\* idocr(), lines 252-261: up to the first engine invocation
IdocrBegin ==
    /\ pc = "recv" /\ endpoint = "idocr"
    /\ IF files.front = "missing" \/ files.back = "missing"
       THEN Finish(MissingResponse)
       ELSE IF fix_orientation(files.front).raised
            THEN Finish(ExceptionResponse(fix_orientation(files.front).exc))
       ELSE IF fix_orientation(files.back).raised
            THEN Finish(ExceptionResponse(fix_orientation(files.back).exc))
       ELSE IF LoadFails(files.front)
            \* enhance_text(imgf) in ocr_image loads the pixels
            THEN Finish(ExceptionResponse("OSError"))
       ELSE /\ pc' = "ocr_front" /\ resp' = resp
    /\ UNCHANGED <<endpoint, files, fastArg, today, rotated, idx, calls, mrz_obj,
                   input, output>>

\* idocr(), lines 261-262: pytesseract on the front, then enhance_text(imgb)
IdocrOcrFront ==
    /\ pc = "ocr_front"
    /\ \/ /\ calls' = Append(calls, OcrCall("front", "raise", <<>>))
          /\ Finish(ExceptionResponse("TesseractError"))
       \/ /\ calls' = Append(calls, OcrCall("front", "text", <<>>))
          /\ IF LoadFails(files.back) THEN Finish(ExceptionResponse("OSError"))
             ELSE /\ pc' = "ocr_back" /\ resp' = resp
    /\ UNCHANGED <<endpoint, files, fastArg, today, rotated, idx, mrz_obj,
                   input, output>>

\* idocr(), lines 262-290: pytesseract on the back, the extraction, the answer
IdocrOcrBack ==
    /\ pc = "ocr_back"
    /\ \/ /\ calls' = Append(calls, OcrCall("back", "raise", <<>>))
          /\ Finish(ExceptionResponse("TesseractError"))
       \/ \E txt \in BackFaceTexts :
            /\ calls' = Append(calls, OcrCall("back", "text", txt))
            /\ Finish(IdocrResponse(txt))
    /\ UNCHANGED <<endpoint, files, fastArg, today, rotated, idx, mrz_obj,
                   input, output>>

Next ==
    \/ MrzBegin
    \/ MrzFastOcr
    \/ TryReadMrz
    \/ MrzAfterCascade
    \/ MrzFallbackOcr
    \/ IdocrBegin
    \/ IdocrOcrFront
    \/ IdocrOcrBack

Spec == Init /\ [][Next]_vars

-----------------------------------------------------------------------------
(* Vocabulary of the properties *)

IsGrammarCall(c) == c.lib = "read_mrz"
IsOcrCall(c) == c.lib = "pytesseract"
GrammarCalls == SelectSeq(calls, IsGrammarCall)
OcrCalls == SelectSeq(calls, IsOcrCall)

\* the priority order try_read_mrz declares: the page-segmentation modes in
\* list order on the image as given, then the same on the image turned 180
DeclaredOrder ==
    << <<0, 6>>, <<0, 7>>, <<0, 11>>, <<180, 6>>, <<180, 7>>, <<180, 11>> >>

AllDigits(s) == \A i \in DOMAIN s : IsDigit(s[i])
SixDigits(x) == ~x.isNone /\ Len(x.s) = 6 /\ AllDigits(x.s)

IsLeap(y) == (y % 4 = 0 /\ y % 100 # 0) \/ y % 400 = 0
DaysIn(y, m) ==
    IF m = 2 THEN (IF IsLeap(y) THEN 29 ELSE 28)
    ELSE IF m \in {4, 6, 9, 11} THEN 30 ELSE 31

\* YYYY-MM-DD naming a day of the calendar
IsIsoDate(s) ==
    /\ Len(s) = 10
    /\ s[5] = "-" /\ s[8] = "-"
    /\ AllDigits(SubSeq(s, 1, 4)) /\ AllDigits(SubSeq(s, 6, 7))
    /\ AllDigits(SubSeq(s, 9, 10))
    /\ LET y == DigitsToNat(SubSeq(s, 1, 4))
           m == DigitsToNat(SubSeq(s, 6, 7))
           d == DigitsToNat(SubSeq(s, 9, 10))
       IN  m \in 1..12 /\ d \in 1..DaysIn(y, m)

IsoOrNull(x) == x.isNone \/ IsIsoDate(x.s)

MrzDone == endpoint = "mrz" /\ pc = "done"

\* all six attempts of the cascade were made and each returned None
CascadeExhausted ==
    /\ Len(GrammarCalls) = 6
    /\ \A i \in 1..6 : GrammarCalls[i].outcome = "null"

-----------------------------------------------------------------------------
(* C1 *)

\* C1: the cascade invokes read_mrz in the declared order (modes 6, 7, 11 on
\* the image as given, then on the image turned 180 degrees) and stops at the
\* first record: every invocation before the last one returned None, so a
\* backend that first succeeds at attempt N is invoked exactly N times; what
\* try_read_mrz returns is the record of that last attempt, and it returns
\* None only after all six attempts returned None.
C1_CascadeStopsAtFirstSuccess ==
    LET g == GrammarCalls
    IN  /\ Len(g) <= Len(DeclaredOrder)
        /\ \A i \in DOMAIN g : <<g[i].rot, g[i].psm>> = DeclaredOrder[i]
        /\ \A i \in DOMAIN g : i < Len(g) => g[i].outcome = "null"
        /\ (g # <<>> /\ g[Len(g)].outcome = "record")
              => (pc # "cascade" /\ mrz_obj = g[Len(g)].record)
        /\ (pc \in {"returned", "fallback_ocr"} /\ ~mrz_obj.found)
              => CascadeExhausted

\* the backend succeeded only at the fifth attempt (mode 7 on the turned
\* image), five attempts were made and the request was answered
C1_Witness ==
    /\ MrzDone /\ resp.ok
    /\ Len(GrammarCalls) = 5
    /\ GrammarCalls[5].outcome = "record"
    /\ GrammarCalls[5].rot = 180 /\ GrammarCalls[5].psm = 7
    /\ mrz_obj.found

-----------------------------------------------------------------------------
(* C2 *)

\* C2: for every input that is not exactly six digits (None, empty, another
\* length, or six characters some of which are no digit), normalize_date_mrz
\* returns None and does not raise.
C2_NotSixDigitsGivesNull ==
    (output.state = "done" /\ ~SixDigits(input))
        => (~output.res.raised /\ output.res.value = NoneStr)

-----------------------------------------------------------------------------
(* C3 *)

\* C3: for every string of six digits YYMMDD and every current year,
\* normalize_date_mrz returns YYYY-MM-DD whose last two year digits are YY,
\* whose month and day are MM and DD, and whose century is 2000 when
\* YY <= current year mod 100 and 1900 otherwise.
C3_CenturyRule ==
    (output.state = "done" /\ SixDigits(input))
        => /\ ~output.res.raised
           /\ ~output.res.value.isNone
           /\ LET r == output.res.value.s
                  yy == DigitsToNat(SubSeq(input.s, 1, 2))
              IN  /\ Len(r) = 10
                  /\ AllDigits(SubSeq(r, 1, 4))
                  /\ DigitsToNat(SubSeq(r, 3, 4)) = yy
                  /\ DigitsToNat(SubSeq(r, 1, 2)) = (IF yy <= today % 100 THEN 20 ELSE 19)
                  /\ r[5] = "-" /\ r[8] = "-"
                  /\ SubSeq(r, 6, 7) = SubSeq(input.s, 3, 4)
                  /\ SubSeq(r, 9, 10) = SubSeq(input.s, 5, 6)

\* with the clock at 2024, '240101' (YY equal to the clock's) gave '2024-01-01'
C3_Witness ==
    /\ today = 2024
    /\ input = Str(<<"2","4","0","1","0","1">>)
    /\ output.state = "done"
    /\ output.res = Returned(Str(<<"2","0","2","4","-","0","1","-","0","1">>))

-----------------------------------------------------------------------------
(* C4 *)

\* C4: for every raw line (empty, shorter than, equal to or longer than 30
\* after sanitizing) normalize_td1_line and the per-line normalization of
\* ocr_bottom_mrz_lines_fast give a string of exactly 30 characters and do
\* not fail.
C4_LineLengthInvariant ==
    output.state = "done"
        => IF output.fn = "normalize_td1_line"
           THEN ~output.res.raised /\ Len(output.res.value.s) = 30
           ELSE \A i \in DOMAIN output.res : Len(output.res[i]) = 30

-----------------------------------------------------------------------------
(* C5 *)

\* C5: in every successful /mrz response, nacimiento and expiracion are each
\* null or a date of the calendar written YYYY-MM-DD.
C5_DatesIsoOrNull ==
    (MrzDone /\ resp.ok) => (IsoOrNull(resp.nacimiento) /\ IsoOrNull(resp.expiracion))

-----------------------------------------------------------------------------
(* C6 *)

\* a required upload is missing or cannot be decoded as an image
InputError ==
    \/ endpoint = "mrz" /\ files.image # "valid"
    \/ endpoint = "idocr" /\ (files.front # "valid" \/ files.back # "valid")

\* C6: when a required upload is missing or undecodable, no OCR-engine or
\* grammar-library invocation is ever made for the request, and the request
\* ends in an error response (ok false).
C6_InputErrorsFailFast ==
    InputError => (calls = <<>> /\ (pc = "done" => ~resp.ok))

-----------------------------------------------------------------------------
(* C7 *)

\* every attempt of the cascade returned None and the fallback OCR ran and
\* gave no MRZ line
ExtractionMiss ==
    /\ MrzDone
    /\ CascadeExhausted
    /\ Len(calls) = 7
    /\ calls[7].lib = "pytesseract" /\ calls[7].outcome = "text"
    /\ calls[7].lines = <<>>

\* C7: an extraction miss ends without an exception (no 500) in a response
\* that marks the MRZ as not detected instead of reporting success.
C7_MissIsNotDetected ==
    ExtractionMiss => (resp.status # 500 /\ ~resp.ok)

-----------------------------------------------------------------------------
(* C8 *)

IsEmptyStr(x) == x = Str(<<>>)

\* C8: a /mrz request with fast=1 never invokes the grammar library, invokes
\* the OCR engine at most once and only for the bottom band, exactly once
\* when the image is usable; the identity fields of its successful response
\* are empty or null whatever the OCR read.
C8_FastSkipsCascade ==
    (endpoint = "mrz" /\ fastArg = "1")
        => /\ GrammarCalls = <<>>
           /\ Len(calls) <= 1
           /\ \A i \in DOMAIN calls : calls[i].target = "bottom_band"
           /\ (pc = "done" /\ files.image = "valid") => Len(OcrCalls) = 1
           /\ (pc = "done" /\ resp.ok)
                 => /\ IsEmptyStr(resp.numero) /\ IsEmptyStr(resp.nacionalidad)
                    /\ IsEmptyStr(resp.apellidos) /\ IsEmptyStr(resp.nombres)
                    /\ IsEmptyStr(resp.sexo)
                    /\ resp.nacimiento = NoneStr /\ resp.expiracion = NoneStr

\* a fast request on an image whose bottom band holds three MRZ lines was
\* answered after one OCR pass
C8_Witness ==
    /\ endpoint = "mrz" /\ fastArg = "1" /\ pc = "done" /\ resp.ok
    /\ Len(calls) = 1 /\ calls[1].lib = "pytesseract"
    /\ Len(resp.mrz_lines) = 3

-----------------------------------------------------------------------------
(* C9 *)

\* what the claim expects of a cp/locality/province line
CpLineFields(l) ==
    IF l = <<"2","8","0","1","3"," ","M","A","D","R","I","D"," ","(","M","A","D","R","I","D",")">>
    THEN [cp |-> <<"2","8","0","1","3">>, localidad |-> <<"M","A","D","R","I","D">>, provincia |-> <<"M","A","D","R","I","D">>]
    ELSE [cp |-> <<"2","8","9","0","1">>, localidad |-> <<"G","E","T","A","F","E">>, provincia |-> <<"M","A","D","R","I","D">>]

\* C9: over a street line followed by a '<cp> <LOCALITY> (<PROVINCE>)' line,
\* extract_address_residence gives the street line alone as domicilio, the
\* code as cp, the locality as localidad and the province as provincia.
C9_StreetThenCpLine ==
    (output.state = "done" /\ Len(input) = 2
        /\ input[1] \in StreetLines /\ input[2] \in CpLines)
        => /\ output.res.domicilio = Str(Upper(input[1]))
           /\ output.res.cp = Str(CpLineFields(input[2]).cp)
           /\ output.res.localidad = Str(CpLineFields(input[2]).localidad)
           /\ output.res.provincia = Str(CpLineFields(input[2]).provincia)

-----------------------------------------------------------------------------
(* C10 *)

====
